---- MODULE Spec2Model ----
(***************************************************************************)
(* Execution core of code-runner-mcp: the Pyodide runtime singleton        *)
(* (getPyodide), the cancellable stream primitive (makeStream) and the     *)
(* Python execution stream controller (runPy).                             *)
(*                                                                         *)
(* JavaScript is single threaded: every action below is one run-to-        *)
(* completion piece of code (the synchronous part of a call up to its      *)
(* first await, a timer callback, an event listener, or a promise          *)
(* settlement together with the reactions it schedules in the same         *)
(* microtask checkpoint).                                                  *)
(***************************************************************************)
EXTENDS Integers, Sequences, FiniteSets, TLC

\* ------------------------------------------------------------------ bounds
NExec == 2        \* runPy executions that may overlap on the shared runtime
NFree == 1        \* getPyodide calls made outside runPy (warm-up, getPip, loadDeps)
MaxInits == 2     \* initialization cycles (first attempt plus retries)
MaxWrites == 2    \* output writes one snippet performs
MaxCdnInits == 1  \* initialization cycles of the multi-CDN variant
MaxImports == 2   \* missing root modules the import analysis reports for one snippet
MaxChunk == 2     \* characters of the longest output chunk
MAX_CODE_LENGTH == 2     \* CONFIG.LIMITS.MAX_CODE_LENGTH (config.ts:24), scaled down
MAX_OUTPUT_LENGTH == 3   \* CONFIG.LIMITS.MAX_OUTPUT_LENGTH (config.ts:25), scaled down

Execs == 1..NExec
FreeCalls == (NExec + 1)..(NExec + NFree)
Calls == Execs \cup FreeCalls
DirectCaller == 0            \* a caller of loadDeps other than runPy
DepCallers == Execs \cup {DirectCaller}
CdnCalls == 1..(NFree + 1)   \* concurrent callers of the multi-CDN variant

VARIABLES
  \* --- runtime singleton manager (tool/py.ts)
  customUrl,                \* process.env.PYODIDE_PACKAGE_BASE_URL is set
  pyodideInstance,          \* 0 = null, k = the race promise of bootstrap k
  initializationAttempted,
  loads,                    \* one record per loadPyodide call, in call order
  call,                     \* one record per getPyodide call
  initCount                 \* initialization cycles started so far

mgrVars == <<customUrl, pyodideInstance, initializationAttempted, loads, call, initCount>>

VARIABLES
  \* --- one runPy call each (service/py-runner.ts)
  pc,                \* position of the runPy call
  aborted,           \* signal.aborted of the call's AbortSignal
  listener,          \* the "abort" listener of makeStream is registered
  stream,            \* the ReadableStream and its default controller
  streamClosed,      \* the closure variable streamClosed
  timer,             \* the EXEC_TIMEOUT timer
  interruptBuffer,   \* interruptBuffer[0] of the call's own buffer
  task,              \* the deferred execution: runPythonAsync(code)
  writes,            \* output writes the snippet has performed
  \* --- the shared Pyodide runtime
  stdoutSink,        \* execution whose push("") is the stdout handler, 0 = {}
  stderrSink,        \* execution whose push("[stderr] ") is the stderr handler
  pyInterrupt,       \* execution whose buffer setInterruptBuffer registered last
  mounted,           \* the NODEFS mount point is mounted
  \* --- history
  firstTerminal,     \* the first terminal event of the stream
  detachCount,       \* times the call's code detached the sinks
  onAbortRuns,       \* times the call's onAbort ran
  sinkInstalls,      \* times the call's onStart installed the sinks
  raised,            \* an output write raised into the runtime
  \* --- dependency preflight (tool/py.ts loadDeps), one frame per caller
  deps,
  \* --- the tools/call request being served and its handler
  tool,
  \* --- service/warmup.ts: warmupCompleted, warmupPromise and the warm-up run
  warmup

execVars == <<pc, aborted, listener, stream, streamClosed, timer, interruptBuffer,
              task, writes>>
rtVars == <<stdoutSink, stderrSink, pyInterrupt, mounted>>
histVars == <<firstTerminal, detachCount, onAbortRuns, sinkInstalls, raised>>
runVars == <<execVars, rtVars, histVars, deps, tool, warmup>>

vars == <<mgrVars, runVars>>

\* ------------------------------------------------------------ manager: data
IdleCall == [pc |-> "idle", on |-> 0, result |-> 0, epoch |-> 0, early |-> FALSE]

\* py.ts:21-24 -- the single package base URL of tool/py.ts
PackageBaseUrl == IF customUrl THEN "custom" ELSE "fastly"

\* part_009:24-29 -- the source list of the multi-CDN variant, null filtered out
CdnUrls ==
  IF customUrl THEN <<"custom", "fastly", "cdn", "unpkg">>
               ELSE <<"fastly", "cdn", "unpkg">>

\* loadPyodide({packageBaseUrl}) raced against the 60 s timer
NewLoad(url, idx) ==
  [url |-> url, idx |-> idx, load |-> "pending", race |-> "pending",
   epoch |-> initCount + 1]

InFlight == {k \in 1..Len(loads) : loads[k].load = "pending"}

MgrInit ==
  /\ customUrl \in BOOLEAN
  /\ pyodideInstance = 0
  /\ initializationAttempted = FALSE
  /\ loads = <<>>
  /\ call = [c \in Calls |-> IdleCall]
  /\ initCount = 0

\* ------------------------------------------------- manager: tool/py.ts
\* Reactions of every getPyodide call waiting on race promise k once it has
\* settled: the initiator resumes after `await pyodideInstance` (py.ts:45),
\* a sharer's returned promise adopts the outcome (py.ts:55).
Settled(k, out) ==
  [c \in Calls |->
     IF call[c].on = k /\ call[c].pc \in {"awaitInit", "awaitShared"}
     THEN [call[c] EXCEPT !.pc = IF out = "fulfilled" THEN "returned" ELSE "threw",
                          !.result = IF out = "fulfilled" THEN k ELSE 0]
     ELSE call[c]]

\* a catch block that forgets `initializationAttempted = false`
InitSettledKeepsAttempted(ld, k, out) ==
  /\ loads' = ld
  /\ call' = Settled(k, out)
  /\ IF out = "rejected"
     THEN pyodideInstance' = 0 /\ UNCHANGED initializationAttempted
     ELSE UNCHANGED <<pyodideInstance, initializationAttempted>>
  /\ UNCHANGED <<customUrl, initCount>>

\* the reset written in a `finally` block: it also runs after a success
InitSettledAlwaysResets(ld, k, out) ==
  /\ loads' = ld
  /\ call' = Settled(k, out)
  /\ pyodideInstance' = 0
  /\ initializationAttempted' = FALSE
  /\ UNCHANGED <<customUrl, initCount>>

\* py.ts:44-53 -- try { await } catch { reset; throw }
InitSettled(ld, k, out) ==
  /\ loads' = ld
  /\ call' = Settled(k, out)
  /\ IF out = "rejected"
     THEN pyodideInstance' = 0 /\ initializationAttempted' = FALSE
     ELSE UNCHANGED <<pyodideInstance, initializationAttempted>>
  /\ UNCHANGED <<customUrl, initCount>>

\* py.ts:13-59 -- getPyodide up to its first await
GetPyodide(c) ==
  /\ call[c].pc = "idle"
  /\ IF pyodideInstance = 0 /\ ~initializationAttempted
     THEN /\ initCount < MaxInits
          /\ initializationAttempted' = TRUE
          /\ loads' = Append(loads, NewLoad(PackageBaseUrl, 1))
          /\ pyodideInstance' = Len(loads) + 1
          /\ initCount' = initCount + 1
          /\ call' = [call EXCEPT ![c] =
                 [pc |-> "awaitInit", on |-> Len(loads) + 1, result |-> 0,
                  epoch |-> initCount + 1, early |-> TRUE]]
     ELSE /\ call' = [call EXCEPT ![c] =
                 IF pyodideInstance = 0
                 THEN [pc |-> "threw", on |-> 0, result |-> 0,
                       epoch |-> initCount, early |-> FALSE]
                 ELSE IF loads[pyodideInstance].race = "pending"
                 THEN [pc |-> "awaitShared", on |-> pyodideInstance, result |-> 0,
                       epoch |-> initCount, early |-> TRUE]
                 ELSE [pc |-> IF loads[pyodideInstance].race = "fulfilled"
                              THEN "returned" ELSE "threw",
                       on |-> pyodideInstance,
                       result |-> IF loads[pyodideInstance].race = "fulfilled"
                                  THEN pyodideInstance ELSE 0,
                       epoch |-> initCount, early |-> FALSE]]
          /\ UNCHANGED <<pyodideInstance, initializationAttempted, loads, initCount>>
  /\ UNCHANGED customUrl

\* py.ts:29-35 -- the loadPyodide promise settles (ok: resolved, else rejected);
\* once the race has been lost to the timer its outcome is ignored
LoadPyodideSettles(k, ok) ==
  /\ k \in InFlight
  /\ LET out == IF ok THEN "fulfilled" ELSE "rejected"
         res == IF ok THEN "resolved" ELSE "rejected"
     IN IF loads[k].race = "pending"
        THEN InitSettled([loads EXCEPT ![k].load = res, ![k].race = out], k, out)
        ELSE /\ loads' = [loads EXCEPT ![k].load = "ignored"]
             /\ UNCHANGED <<customUrl, pyodideInstance, initializationAttempted,
                            call, initCount>>

\* py.ts:37-41 -- the 60 s timer rejects the race.  The timer is never cleared,
\* but firing after the race has settled has no effect on any state.
InitTimeoutFires(k) ==
  /\ k \in 1..Len(loads)
  /\ loads[k].race = "pending"
  /\ InitSettled([loads EXCEPT ![k].race = "rejected"], k, "rejected")

\* ------------------------------------------- manager: multi-CDN variant
\* part_009:57-67 -- catch { pyodideInstance = null; continue } and, after the
\* loop, initializationAttempted = false; throw.  The next iteration's
\* loadPyodide (part_009:37-52) runs in the same synchronous stretch.
InitSettledCdn(ld, k, out) ==
  LET more == ld[k].idx < Len(CdnUrls)
      next == Len(ld) + 1
      shr  == Settled(k, out)
      ini  == CHOOSE c \in Calls : call[c].pc = "awaitInit" /\ call[c].on = k
  IN
  /\ UNCHANGED <<customUrl, initCount>>
  /\ IF out = "fulfilled"
     THEN /\ loads' = ld
          /\ call' = shr
          /\ UNCHANGED <<pyodideInstance, initializationAttempted>>
     ELSE IF more
     THEN /\ loads' = Append(ld, [NewLoad(CdnUrls[ld[k].idx + 1], ld[k].idx + 1)
                                    EXCEPT !.epoch = ld[k].epoch])
          /\ pyodideInstance' = next
          /\ call' = [shr EXCEPT ![ini] = [call[ini] EXCEPT !.on = next]]
          /\ UNCHANGED initializationAttempted
     ELSE /\ loads' = ld
          /\ call' = shr
          /\ pyodideInstance' = 0
          /\ initializationAttempted' = FALSE

\* part_009:13-74 -- getPyodide up to its first await (first source of the list)
GetPyodideCdn(c) ==
  /\ call[c].pc = "idle"
  /\ IF pyodideInstance = 0 /\ ~initializationAttempted
     THEN /\ initCount < MaxCdnInits
          /\ initializationAttempted' = TRUE
          /\ loads' = Append(loads, NewLoad(CdnUrls[1], 1))
          /\ pyodideInstance' = Len(loads) + 1
          /\ initCount' = initCount + 1
          /\ call' = [call EXCEPT ![c] =
                 [pc |-> "awaitInit", on |-> Len(loads) + 1, result |-> 0,
                  epoch |-> initCount + 1, early |-> TRUE]]
     ELSE /\ call' = [call EXCEPT ![c] =
                 IF pyodideInstance = 0
                 THEN [pc |-> "threw", on |-> 0, result |-> 0,
                       epoch |-> initCount, early |-> FALSE]
                 ELSE IF loads[pyodideInstance].race = "pending"
                 THEN [pc |-> "awaitShared", on |-> pyodideInstance, result |-> 0,
                       epoch |-> initCount, early |-> TRUE]
                 ELSE [pc |-> IF loads[pyodideInstance].race = "fulfilled"
                              THEN "returned" ELSE "threw",
                       on |-> pyodideInstance,
                       result |-> IF loads[pyodideInstance].race = "fulfilled"
                                  THEN pyodideInstance ELSE 0,
                       epoch |-> initCount, early |-> FALSE]]
          /\ UNCHANGED <<pyodideInstance, initializationAttempted, loads, initCount>>
  /\ UNCHANGED customUrl

\* part_009:37-43
LoadPyodideSettlesCdn(k, ok) ==
  /\ k \in InFlight
  /\ LET out == IF ok THEN "fulfilled" ELSE "rejected"
         res == IF ok THEN "resolved" ELSE "rejected"
     IN IF loads[k].race = "pending"
        THEN InitSettledCdn([loads EXCEPT ![k].load = res, ![k].race = out], k, out)
        ELSE /\ loads' = [loads EXCEPT ![k].load = "ignored"]
             /\ UNCHANGED <<customUrl, pyodideInstance, initializationAttempted,
                            call, initCount>>

\* part_009:46-50
InitTimeoutFiresCdn(k) ==
  /\ k \in 1..Len(loads)
  /\ loads[k].race = "pending"
  /\ InitSettledCdn([loads EXCEPT ![k].race = "rejected"], k, "rejected")


\* ------------------------------------------------ ReadableStream (platform)
\* A stream record: state, closeRequested, queued chunks, a pending read
\* request, the chunks the consumer has received and what the consumer saw last.
NoStream ==
  [st |-> "none", closeReq |-> FALSE, queue |-> <<>>, reading |-> FALSE,
   delivered |-> <<>>, cons |-> "open", err |-> "none"]

NewStream == [NoStream EXCEPT !.st = "readable"]

CanCloseOrEnqueue(S) == S.st = "readable" /\ ~S.closeReq

\* controller.enqueue(chunk): throws unless CanCloseOrEnqueue; a pending read
\* takes the chunk directly
StreamEnqueue(S, chunk) ==
  IF ~CanCloseOrEnqueue(S) THEN [s |-> S, threw |-> TRUE]
  ELSE IF S.reading
  THEN [s |-> [S EXCEPT !.reading = FALSE, !.delivered = Append(@, chunk)],
        threw |-> FALSE]
  ELSE [s |-> [S EXCEPT !.queue = Append(@, chunk)], threw |-> FALSE]

\* controller.close(): throws unless CanCloseOrEnqueue; the stream becomes
\* closed at once only when nothing is queued
StreamClose(S) ==
  IF ~CanCloseOrEnqueue(S) THEN [s |-> S, threw |-> TRUE]
  ELSE IF S.queue = <<>>
  THEN [s |-> [S EXCEPT !.closeReq = TRUE, !.st = "closed", !.reading = FALSE,
                        !.cons = IF S.reading THEN "done" ELSE @],
        threw |-> FALSE]
  ELSE [s |-> [S EXCEPT !.closeReq = TRUE], threw |-> FALSE]

\* controller.error(e): no effect unless the state is "readable"; drops the queue
StreamError(S, reason) ==
  IF S.st # "readable" THEN S
  ELSE [S EXCEPT !.st = "errored", !.err = reason, !.queue = <<>>,
                 !.reading = FALSE, !.cons = IF S.reading THEN "error" ELSE @]

\* reader.read() of the consumer
StreamRead(S) ==
  IF S.queue # <<>>
  THEN [S EXCEPT !.delivered = Append(@, Head(S.queue)), !.queue = Tail(@),
                 !.st = IF Len(S.queue) = 1 /\ S.closeReq THEN "closed" ELSE @]
  ELSE IF S.st = "readable" THEN [S EXCEPT !.reading = TRUE]
  ELSE [S EXCEPT !.cons = IF S.st = "closed" THEN "done" ELSE "error"]

\* stream.cancel() of the consumer (also the `break` of a for-await loop)
StreamCancel(S) ==
  IF S.st = "readable"
  THEN [S EXCEPT !.st = "closed", !.queue = <<>>, !.reading = FALSE,
                 !.cons = "cancelled"]
  ELSE [S EXCEPT !.cons = "cancelled"]

\* part_002:119 -- Python is running inside runPythonAsync: the event loop is blocked
Busy == \E e \in Execs : task[e] = "running"

\* ------------------------------------------ loadDeps (tool/py.ts:68-191)
\* A Record<string, string> is the set of its <<key, value>> entries.
Has(m, k) == \E p \in m : p[1] = k

Get(m, k) == (CHOOSE p \in m : p[1] = k)[2]

\* { ...a, ...b }: the entries of b replace those of a with the same key
Merge(a, b) == {p \in a : ~Has(b, p[1])} \cup b

\* py.ts:75-80
defaultMappings ==
  { <<"sklearn", "scikit-learn">>, <<"cv2", "opencv-python">>,
    <<"PIL", "Pillow">>, <<"bs4", "beautifulsoup4">> }

\* py.ts:82-85
CombinedMap(importToPackageMap) == Merge(defaultMappings, importToPackageMap)

\* Root module names a snippet may import, in the order of Python's sorted()
ImportOrder == <<"PIL", "bs4", "cv2", "numpy", "sklearn">>

ImportNames == {ImportOrder[i] : i \in DOMAIN ImportOrder}

\* the root names the runPy calls of the model import
RunImports == {"numpy", "sklearn"}

\* pyodide.code.find_imports(code) reduced to root packages (py.ts:93, 105-111)
FoundSets(names) == {S \in SUBSET names : Cardinality(S) <= MaxImports}

\* sorted(list(set(xs))) for a set of names (py.ts:129)
Sorted(S) == SelectSeq(ImportOrder, LAMBDA n : n \in S)

\* an analysis without the import probe of py.ts:117-126
MissingImportsNoProbe(found, available, importable) ==
  Sorted({n \in found : n \notin available})

\* py.ts:96-129 -- the missing imports: the roots found that are neither in
\* sys.modules / sys.builtin_module_names nor importable by the probe
MissingImports(found, available, importable) ==
  Sorted({n \in found : n \notin available /\ n \notin importable})

\* Values a caller may give as a package name: empty, blank, and two names
OverrideValues == {"", " ", "custom-a", "custom-b"}

OverrideKeys == {"sklearn", "numpy"}

\* What a tools/call request may carry as importToPackageMap: nothing or a table
RequestedMaps == { {}, {<<"sklearn", "custom-a">>} }

\* The override tables (importToPackageMap) a caller may pass
Overrides ==
  { { <<k, f[k]>> : k \in ks } : ks \in SUBSET OverrideKeys,
                                f \in [OverrideKeys -> OverrideValues] }

\* pkg.trim().length === 0
IsBlank(pkg) == pkg \in {"", " "}

\* the mapping callback without the alias table: always the raw import name
ResolveRawName(combinedMap, importName) == importName

\* py.ts:142-144 -- combinedMap[importName] || importName ("" is falsy)
Resolve(combinedMap, importName) ==
  IF Has(combinedMap, importName) /\ Get(combinedMap, importName) # ""
  THEN Get(combinedMap, importName)
  ELSE importName

\* [...new Set(xs)]: the first occurrence of every element, in order
RECURSIVE Unique(_)
Unique(xs) ==
  IF xs = <<>> THEN <<>>
  ELSE LET front == Unique(SubSeq(xs, 1, Len(xs) - 1))
           last == xs[Len(xs)]
       IN IF \E i \in 1..Len(front) : front[i] = last THEN front
          ELSE Append(front, last)

NotBlank(pkg) == ~IsBlank(pkg)

\* py.ts:142-149 -- packagesToInstall, then uniquePackages
UniquePackages(combinedMap, imports) ==
  SelectSeq(Unique([i \in 1..Len(imports) |-> Resolve(combinedMap, imports[i])]),
            NotBlank)

IdleDeps ==
  [pc |-> "idle", requested |-> {}, override |-> {}, found |-> {},
   available |-> {}, importable |-> {}, imports |-> <<>>,
   packages |-> <<>>, next |-> 0, log |-> <<>>, results |-> <<>>,
   batch |-> "none", failed |-> FALSE]

\* py.ts:68-72 -- loadDeps(code, importToPackageMap) up to `await getPyodide()`;
\* requested is the table the caller of the caller asked for
LoadDepsCalled(requested, importToPackageMap) ==
  [IdleDeps EXCEPT !.pc = "analysis", !.requested = requested,
                   !.override = importToPackageMap]

\* an error inside the try block that nothing catches
DepsErrorEscapes(D) == [D EXCEPT !.pc = "threw", !.failed = TRUE]

\* py.ts:186-190 -- the catch block around the whole body: log and return
DepsError(D) == [D EXCEPT !.pc = "returned", !.failed = TRUE]

\* py.ts:87-139 -- the import analysis runs (synchronously) and getPip is
\* called. outcome: "throws" (runPython throws), "pyError" (the analysis fails
\* inside Python, py.ts:131-133: result = []) or "ok"
DepsAnalyse(d, outcome, found, available, importable) ==
  /\ ~Busy
  /\ deps[d].pc = "analysis"
  /\ deps' = [deps EXCEPT ![d] =
       IF outcome = "throws" THEN DepsError(@)
       ELSE [@ EXCEPT !.pc = "getPip", !.found = found, !.available = available,
                      !.importable = importable,
                      !.imports = IF outcome = "pyError" THEN <<>>
                                  ELSE MissingImports(found, available, importable)]]
  /\ UNCHANGED <<mgrVars, execVars, rtVars, histVars, tool, warmup>>

\* py.ts:161 -- the argument of the batched pip.install
BatchOf(packages) == packages

\* py.ts:139-161 and 183-185 -- getPip settles; with missing imports the
\* package list is built and the batched install is called
DepsPipSettles(d, ok) ==
  /\ ~Busy
  /\ deps[d].pc = "getPip"
  /\ LET D == deps[d]
         uniquePackages == UniquePackages(CombinedMap(D.override), D.imports)
     IN deps' = [deps EXCEPT ![d] =
          IF ~ok THEN DepsError(D)
          ELSE IF Len(D.imports) = 0 \/ Len(uniquePackages) = 0
          THEN [D EXCEPT !.pc = "returned"]
          ELSE [D EXCEPT !.pc = "batch", !.packages = uniquePackages,
                         !.log = Append(@, BatchOf(uniquePackages))]]
  /\ UNCHANGED <<mgrVars, execVars, rtVars, histVars, tool, warmup>>

\* the individual fallback stopping at the first failure
AfterSingleStops(D, ok) ==
  IF ok /\ D.next < Len(D.packages)
  THEN [D EXCEPT !.next = @ + 1, !.log = Append(@, <<D.packages[D.next + 1]>>),
                 !.results = Append(@, ok)]
  ELSE [D EXCEPT !.pc = "returned", !.results = Append(@, ok)]

\* py.ts:173-181 -- one individual pip.install settles; the loop goes on to
\* the next package whatever the outcome
AfterSingle(D, ok) ==
  IF D.next < Len(D.packages)
  THEN [D EXCEPT !.next = @ + 1, !.log = Append(@, <<D.packages[D.next + 1]>>),
                 !.results = Append(@, ok)]
  ELSE [D EXCEPT !.pc = "returned", !.results = Append(@, ok)]

\* py.ts:160-175 -- the batched install settles; on failure the first
\* individual install is called
DepsBatchSettles(d, ok) ==
  /\ ~Busy
  /\ deps[d].pc = "batch"
  /\ deps' = [deps EXCEPT ![d] =
       IF ok THEN [@ EXCEPT !.pc = "returned", !.batch = "ok",
                            !.results = Append(@, TRUE)]
       ELSE [@ EXCEPT !.pc = "single", !.batch = "failed", !.next = 1,
                      !.results = Append(@, FALSE),
                      !.log = Append(@, <<deps[d].packages[1]>>)]]
  /\ UNCHANGED <<mgrVars, execVars, rtVars, histVars, tool, warmup>>

DepsSingleSettles(d, ok) ==
  /\ ~Busy
  /\ deps[d].pc = "single"
  /\ deps' = [deps EXCEPT ![d] = AfterSingle(@, ok)]
  /\ UNCHANGED <<mgrVars, execVars, rtVars, histVars, tool, warmup>>

\* the steps of one loadDeps call after it was made, for snippets importing
\* root modules among names
DepsStep(d, names) ==
  \/ /\ deps[d].pc = "analysis"
     /\ \E outcome \in {"ok", "pyError", "throws"}, found \in FoundSets(names) :
          \E available \in SUBSET found, importable \in SUBSET found :
            DepsAnalyse(d, outcome, found, available, importable)
  \/ \E ok \in BOOLEAN : DepsPipSettles(d, ok)
  \/ \E ok \in BOOLEAN : DepsBatchSettles(d, ok)
  \/ \E ok \in BOOLEAN : DepsSingleSettles(d, ok)

\* ------------------------------------------------ the tools/call handlers
\* via "http": controllers/mcp.controller.ts; via "sdk": set-up-mcp.ts
IdleTool ==
  [via |-> "none", name |-> "none", phase |-> "idle", code |-> "none",
   codeLen |-> 0, map |-> {}, root |-> "none", mountPoint |-> "none",
   consumed |-> 0, outLen |-> 0, markers |-> 0, response |-> "none",
   at |-> "none"]

ToolNames == {"python-code-runner", "javascript-code-runner"}

\* what a request may carry as arguments.code: no arguments at all, no code,
\* a code that is not a string, a string
CodeKinds == {"noArgs", "missing", "notString", "string"}

\* lengths of args.code around the limit
CodeLens == {MAX_CODE_LENGTH, MAX_CODE_LENGTH + 1}

\* process.env.NODEFS_ROOT and process.env.NODEFS_MOUNT_POINT ("none": unset)
RootDirs == {"none", "/data"}

MountPoints == {"none", "/mnt"}

\* lengths of the decoded text of one chunk
ChunkLens == 0..MaxChunk

\* mcp.controller.ts:144-157 and 216-229 -- the request is answered with
\* invalid params
CodeRejected(code, codeLen) ==
  code # "string" \/ codeLen > MAX_CODE_LENGTH

\* set-up-mcp.ts:56-61 -- the options the python tool builds from the environment
SdkOptions(root, mountPoint) ==
  IF root # "none"
  THEN [given |-> TRUE, nodeFSRoot |-> root, nodeFSMountPoint |-> mountPoint]
  ELSE [given |-> FALSE, nodeFSRoot |-> "none", nodeFSMountPoint |-> "none"]

\* part_002:57 and 157 -- setupPyodideFileSystem attempts a mount
MountRequested(options) == options.given /\ options.nodeFSMountPoint # "none"

\* part_002:159-160 -- the arguments of FS.mount: { root: "." } at the mount point
MountArgs(options) == [point |-> options.nodeFSMountPoint, root |-> "."]

\* mcp.controller.ts:161 -- the options the python tool builds from the arguments
HttpOptions(map) ==
  IF map # {} THEN [given |-> TRUE, importToPackageMap |-> map]
  ELSE [given |-> FALSE, importToPackageMap |-> {}]

\* ------------------------------------------------ warm-up: data
\* warmup.ts:7-8 -- warmupCompleted and warmupPromise ("null", or the state
\* of the promise); pc, timer and outcome follow the one run of the body;
\* starts counts the runs begun; got[w] is the run whose promise the
\* warmupPython call of caller w returned (0: no call yet)
WarmCalls == Calls

IdleWarmup ==
  [warmupCompleted |-> FALSE, warmupPromise |-> "null", pc |-> "idle",
   timer |-> "none", outcome |-> "none", starts |-> 0,
   got |-> [w \in WarmCalls |-> 0]]

\* the roots of commonPackagesCode (warmup.ts:28-37) the analysis can report
\* missing, reduced to the one with an alias
WarmupImports == {"sklearn"}

\* a guard that looks at warmupCompleted only
WarmupSkipsWhenCompleted(W) == W.warmupCompleted

\* warmup.ts:15 -- if (warmupCompleted || warmupPromise)
WarmupSkips(W) == W.warmupCompleted \/ W.warmupPromise # "null"

\* a catch block that rethrows: the promise of the run rejects
WarmupEndsRejecting(W, why) ==
  [W EXCEPT !.warmupCompleted = FALSE, !.pc = "ended", !.outcome = why,
            !.warmupPromise = "rejected"]

\* warmup.ts:52-61 -- either catch block: warmupCompleted = false, and the
\* async function of the run returns, so its promise resolves
WarmupEnds(W, why) ==
  [W EXCEPT !.warmupCompleted = FALSE, !.pc = "ended", !.outcome = why,
            !.warmupPromise = "resolved"]

\* warmup.ts:77-82
GetWarmupStatus ==
  [completed |-> warmup.warmupCompleted,
   inProgress |-> warmup.warmupPromise # "null" /\ ~warmup.warmupCompleted]

\* ------------------------------------------------ runPy (service/py-runner.ts)
\* a sink that puts no prefix on the diagnostic channel
PrefixOfNone(ch) == ""

\* part_002:110-111 -- setStdout({ batched: push("") }),
\* setStderr({ batched: push("[stderr] ") })
PrefixOf(ch) == IF ch = "err" THEN "[stderr] " ELSE ""

\* part_002:80 -- encoder.encode(prefix + data) for write number n of the
\* snippet of execution e on channel ch
Chunk(e, ch, n) == [src |-> e, ch |-> ch, n |-> n, prefix |-> PrefixOf(ch)]

\* part_002:96 -- encoder.encode("[err][py] timeout")
Notice == [src |-> 0, ch |-> "timeout", n |-> 0, prefix |-> ""]

FirstOf(e, kind) == IF firstTerminal[e] = "none" THEN kind ELSE firstTerminal[e]

\* push without the try/catch around controller.enqueue
PushRaisesUncaught(e, chunk) ==
  ~streamClosed[e] /\ StreamEnqueue(stream[e], chunk).threw

\* part_002:77-84 -- push(prefix)(data) of execution e raises into the runtime:
\* controller.enqueue throws and nothing catches it (the try/catch does)
PushRaises(e, chunk) ==
  LET threw == ~streamClosed[e] /\ StreamEnqueue(stream[e], chunk).threw
      caught == TRUE
  IN threw /\ ~caught

\* part_002:74-85 -- the stream of execution e after push(prefix)(data)
Push(e, chunk) ==
  IF ~streamClosed[e] THEN StreamEnqueue(stream[e], chunk).s ELSE stream[e]

RunInitWith(mounts) ==
  /\ pc = [e \in Execs |-> "idle"]
  /\ aborted = [e \in Execs |-> FALSE]
  /\ listener = [e \in Execs |-> FALSE]
  /\ stream = [e \in Execs |-> NoStream]
  /\ streamClosed = [e \in Execs |-> FALSE]
  /\ timer = [e \in Execs |-> "none"]
  /\ interruptBuffer = [e \in Execs |-> 0]
  /\ task = [e \in Execs |-> "none"]
  /\ writes = [e \in Execs |-> 0]
  /\ stdoutSink = 0
  /\ stderrSink = 0
  /\ pyInterrupt = 0
  /\ mounted = mounts
  /\ firstTerminal = [e \in Execs |-> "none"]
  /\ detachCount = [e \in Execs |-> 0]
  /\ onAbortRuns = [e \in Execs |-> 0]
  /\ sinkInstalls = [e \in Execs |-> 0]
  /\ raised = FALSE
  /\ deps = [d \in DepCallers |-> IdleDeps]
  /\ tool = IdleTool
  /\ warmup = IdleWarmup

\* no request has mounted anything yet
RunInit == RunInitWith(FALSE)

\* part_002:38-54 -- runPy up to `await getPyodide()`
RunPyCall(e) ==
  /\ ~Busy
  /\ pc[e] = "idle"
  /\ GetPyodide(e)
  /\ pc' = [pc EXCEPT ![e] = "acquire"]
  /\ UNCHANGED <<aborted, listener, stream, streamClosed, timer, interruptBuffer,
                 task, writes, rtVars, histVars>>
  /\ UNCHANGED <<deps, tool, warmup>>

\* a runPy that swallows the rejection of getPyodide and goes on
AcquireFailedProceeds(e) ==
  /\ ~Busy
  /\ pc[e] = "acquire"
  /\ call[e].pc = "threw"
  /\ pc' = [pc EXCEPT ![e] = "preflight"]
  /\ deps' = [deps EXCEPT ![e] = LoadDepsCalled({}, {})]
  /\ UNCHANGED <<mgrVars, aborted, listener, stream, streamClosed, timer,
                 interruptBuffer, task, writes, rtVars, histVars, tool, warmup>>

\* part_002:54 -- getPyodide rejected: runPy rejects, no stream
AcquireFailed(e) ==
  /\ ~Busy
  /\ pc[e] = "acquire"
  /\ call[e].pc = "threw"
  /\ pc' = [pc EXCEPT ![e] = "rejected"]
  /\ UNCHANGED <<mgrVars, aborted, listener, stream, streamClosed, timer,
                 interruptBuffer, task, writes, rtVars, histVars>>
  /\ UNCHANGED <<deps, tool, warmup>>

\* a setupPyodideFileSystem without the try/catch: a failed mount rejects runPy
AcquireDoneMountFatal(e, withMount, mountOk, requested) ==
  /\ ~Busy
  /\ pc[e] = "acquire"
  /\ call[e].pc = "returned"
  /\ mounted' = IF withMount /\ mountOk /\ ~mounted THEN TRUE ELSE mounted
  /\ IF withMount /\ (~mountOk \/ mounted)
     THEN pc' = [pc EXCEPT ![e] = "rejected"] /\ UNCHANGED deps
     ELSE /\ pc' = [pc EXCEPT ![e] = "preflight"]
          /\ deps' = [deps EXCEPT ![e] = LoadDepsCalled(requested, {})]
  /\ UNCHANGED <<mgrVars, aborted, listener, stream, streamClosed, timer,
                 interruptBuffer, task, writes, stdoutSink, stderrSink,
                 pyInterrupt, histVars, tool, warmup>>

\* part_002:56-62 and 155-166 -- setupPyodideFileSystem, then loadDeps(code) is
\* called. withMount: options.nodeFSMountPoint is given; mountOk: FS.mount does
\* not throw; requested: options.importToPackageMap of the caller
AcquireDone(e, withMount, mountOk, requested) ==
  /\ ~Busy
  /\ pc[e] = "acquire"
  /\ call[e].pc = "returned"
  /\ mounted' = IF withMount /\ mountOk /\ ~mounted THEN TRUE ELSE mounted
  /\ pc' = [pc EXCEPT ![e] = "preflight"]
  /\ deps' = [deps EXCEPT ![e] = LoadDepsCalled(requested, {})]
  /\ UNCHANGED <<mgrVars, aborted, listener, stream, streamClosed, timer,
                 interruptBuffer, task, writes, stdoutSink, stderrSink,
                 pyInterrupt, histVars, tool, warmup>>

\* an onAbort that detaches the sinks but never writes the interrupt buffer
OnAbortNoInterrupt(e) ==
  /\ streamClosed' = [streamClosed EXCEPT ![e] = TRUE]
  /\ interruptBuffer' = [interruptBuffer EXCEPT ![e] = IF pc[e] = "streaming" THEN @ ELSE 0]
  /\ stdoutSink' = 0
  /\ stderrSink' = 0
  /\ detachCount' = [detachCount EXCEPT ![e] = @ + 1]
  /\ onAbortRuns' = [onAbortRuns EXCEPT ![e] = @ + 1]

\* part_002:140-146 -- the onAbort callback runPy hands to makeStream
OnAbort(e) ==
  /\ streamClosed' = [streamClosed EXCEPT ![e] = TRUE]
  /\ interruptBuffer' = [interruptBuffer EXCEPT ![e] = 2]
  /\ stdoutSink' = 0
  /\ stderrSink' = 0
  /\ detachCount' = [detachCount EXCEPT ![e] = @ + 1]
  /\ onAbortRuns' = [onAbortRuns EXCEPT ![e] = @ + 1]

\* a start() that awaits the snippet before it returns
AwaitedExecution(isAborted) == IF isAborted THEN "skipped" ELSE "returned"

\* part_002:114-119 -- start() only queues the execution (queueMicrotask) and
\* returns; the queued function returns at once when the signal is aborted
\* and otherwise calls runPythonAsync, which schedules the snippet
DeferredExecution(isAborted) == IF isAborted THEN "skipped" ELSE "called"

\* a runPy that does not wait for loadDeps
PreflightDoneEarly(e) == deps[e].pc # "idle"

\* part_002:62 -- `await loadDeps(code)` has returned
PreflightDone(e) == deps[e].pc = "returned"

\* part_002:64-149 with py.ts:204-231 -- `await loadDeps(code)` returns; the
\* interrupt buffer is registered, makeStream runs start(): onStart (timer,
\* sinks, deferred execution), then the abort wiring; the deferred execution
\* (part_002:114-119) runs in the same microtask checkpoint.
CreateStream(e) ==
  /\ ~Busy
  /\ pc[e] = "preflight"
  /\ PreflightDone(e)
  /\ deps' = [deps EXCEPT ![e] = [IdleDeps EXCEPT !.failed = deps[e].failed]]
  /\ pc' = [pc EXCEPT ![e] = "streaming"]
  /\ pyInterrupt' = e
  /\ timer' = [timer EXCEPT ![e] = "armed"]
  /\ sinkInstalls' = [sinkInstalls EXCEPT ![e] = @ + 1]
  /\ writes' = writes
  /\ IF aborted[e]
     THEN /\ stream' = [stream EXCEPT ![e] = StreamError(NewStream, "abort")]
          /\ OnAbort(e)
          /\ firstTerminal' = [firstTerminal EXCEPT ![e] = "cancelled"]
          /\ task' = [task EXCEPT ![e] = DeferredExecution(TRUE)]
          /\ UNCHANGED listener
     ELSE /\ stream' = [stream EXCEPT ![e] = NewStream]
          /\ streamClosed' = [streamClosed EXCEPT ![e] = FALSE]
          /\ interruptBuffer' = [interruptBuffer EXCEPT ![e] = 0]
          /\ stdoutSink' = e
          /\ stderrSink' = e
          /\ listener' = [listener EXCEPT ![e] = TRUE]
          /\ task' = [task EXCEPT ![e] = DeferredExecution(FALSE)]
          /\ UNCHANGED <<detachCount, onAbortRuns, firstTerminal>>
  /\ UNCHANGED <<mgrVars, aborted, mounted, raised, tool, warmup>>

\* AbortController.abort() of the caller; py.ts:219-228 -- the listener (once)
\* errors the stream and runs onAbort (part_002:140-146)
Abort(e) ==
  /\ ~Busy
  /\ ~aborted[e]
  /\ pc[e] # "idle"
  /\ aborted' = [aborted EXCEPT ![e] = TRUE]
  /\ IF listener[e]
     THEN /\ listener' = [listener EXCEPT ![e] = FALSE]
          /\ stream' = [stream EXCEPT ![e] = StreamError(@, "abort")]
          /\ OnAbort(e)
          /\ firstTerminal' = [firstTerminal EXCEPT ![e] = FirstOf(e, "cancelled")]
     ELSE UNCHANGED <<listener, stream, streamClosed, interruptBuffer, stdoutSink,
                      stderrSink, detachCount, onAbortRuns, firstTerminal>>
  /\ UNCHANGED <<mgrVars, pc, timer, task, writes, pyInterrupt, mounted,
                 sinkInstalls, raised>>
  /\ UNCHANGED <<deps, tool, warmup>>

\* a timeout callback that closes the stream without the notice
TimeoutFiresNoNotice(e) ==
  /\ ~Busy
  /\ timer[e] = "armed"
  /\ timer' = [timer EXCEPT ![e] = "fired"]
  /\ interruptBuffer' = [interruptBuffer EXCEPT ![e] = 3]
  /\ LET enq == StreamEnqueue(stream[e], Notice)
         cls == StreamClose(stream[e])
     IN IF ~streamClosed[e] /\ ~enq.threw /\ ~cls.threw
        THEN /\ stream' = [stream EXCEPT ![e] = cls.s]
             /\ streamClosed' = [streamClosed EXCEPT ![e] = TRUE]
             /\ stdoutSink' = 0
             /\ stderrSink' = 0
             /\ detachCount' = [detachCount EXCEPT ![e] = @ + 1]
             /\ firstTerminal' = [firstTerminal EXCEPT ![e] = FirstOf(e, "timedOut")]
        ELSE UNCHANGED <<stream, streamClosed, stdoutSink, stderrSink, detachCount,
                         firstTerminal>>
  /\ UNCHANGED <<mgrVars, pc, aborted, listener, task, writes, pyInterrupt, mounted,
                 onAbortRuns, sinkInstalls, raised>>
  /\ UNCHANGED <<deps, tool, warmup>>

\* part_002:92-107 -- the EXEC_TIMEOUT callback
TimeoutFires(e) ==
  /\ ~Busy
  /\ timer[e] = "armed"
  /\ timer' = [timer EXCEPT ![e] = "fired"]
  /\ interruptBuffer' = [interruptBuffer EXCEPT ![e] = 3]
  /\ LET enq == StreamEnqueue(stream[e], Notice)
         cls == StreamClose(enq.s)
     IN IF ~streamClosed[e] /\ ~enq.threw /\ ~cls.threw
        THEN /\ stream' = [stream EXCEPT ![e] = cls.s]
             /\ streamClosed' = [streamClosed EXCEPT ![e] = TRUE]
             /\ stdoutSink' = 0
             /\ stderrSink' = 0
             /\ detachCount' = [detachCount EXCEPT ![e] = @ + 1]
             /\ firstTerminal' = [firstTerminal EXCEPT ![e] = FirstOf(e, "timedOut")]
        ELSE UNCHANGED <<stream, streamClosed, stdoutSink, stderrSink, detachCount,
                         firstTerminal>>
  /\ UNCHANGED <<mgrVars, pc, aborted, listener, task, writes, pyInterrupt, mounted,
                 onAbortRuns, sinkInstalls, raised>>
  /\ UNCHANGED <<deps, tool, warmup>>

\* The runtime starts interpreting the snippet (inside runPythonAsync)
SnippetStart(e) ==
  /\ ~Busy
  /\ task[e] = "called"
  /\ task' = [task EXCEPT ![e] = "running"]
  /\ UNCHANGED <<mgrVars, pc, aborted, listener, stream, streamClosed, timer,
                 interruptBuffer, writes, rtVars, histVars>>
  /\ UNCHANGED <<deps, tool, warmup>>

\* The snippet writes a line to stdout ("out") or stderr ("err"): the runtime
\* calls the handler installed last (part_002:110-111), if any
SnippetWrite(e, ch) ==
  /\ task[e] = "running"
  /\ writes[e] < MaxWrites
  /\ writes' = [writes EXCEPT ![e] = @ + 1]
  /\ LET sink == IF ch = "out" THEN stdoutSink ELSE stderrSink
     IN IF sink = 0
        THEN UNCHANGED <<stream, raised>>
        ELSE /\ stream' = [stream EXCEPT ![sink] =
                              Push(sink, Chunk(e, ch, writes[e] + 1))]
             /\ raised' = (raised \/ PushRaises(sink, Chunk(e, ch, writes[e] + 1)))
  /\ UNCHANGED <<mgrVars, pc, aborted, listener, streamClosed, timer,
                 interruptBuffer, task, rtVars, firstTerminal, detachCount,
                 onAbortRuns, sinkInstalls>>
  /\ UNCHANGED <<deps, tool, warmup>>

\* The snippet awaits inside Python: the event loop is free again
SnippetAwait(e) ==
  /\ task[e] = "running"
  /\ task' = [task EXCEPT ![e] = "suspended"]
  /\ UNCHANGED <<mgrVars, pc, aborted, listener, stream, streamClosed, timer,
                 interruptBuffer, writes, rtVars, histVars>>
  /\ UNCHANGED <<deps, tool, warmup>>

SnippetResume(e) ==
  /\ ~Busy
  /\ task[e] = "suspended"
  /\ task' = [task EXCEPT ![e] = "running"]
  /\ UNCHANGED <<mgrVars, pc, aborted, listener, stream, streamClosed, timer,
                 interruptBuffer, writes, rtVars, histVars>>
  /\ UNCHANGED <<deps, tool, warmup>>

\* part_002:128-137 -- the catch block of the deferred execution
Failed(e, S) ==
  /\ timer' = [timer EXCEPT ![e] = IF @ = "armed" THEN "cleared" ELSE @]
  /\ IF ~streamClosed[e]
     THEN /\ stream' = [stream EXCEPT ![e] = StreamError(S, "runtime")]
          /\ streamClosed' = [streamClosed EXCEPT ![e] = TRUE]
          /\ stdoutSink' = 0
          /\ stderrSink' = 0
          /\ detachCount' = [detachCount EXCEPT ![e] = @ + 1]
          /\ firstTerminal' = [firstTerminal EXCEPT ![e] = FirstOf(e, "failed")]
     ELSE UNCHANGED <<stream, streamClosed, stdoutSink, stderrSink, detachCount,
                      firstTerminal>>

\* part_002:119-127 -- runPythonAsync resolves and the execution continues
SnippetReturns(e) ==
  /\ task[e] = "running"
  /\ task' = [task EXCEPT ![e] = "returned"]
  /\ LET cls == StreamClose(stream[e])
     IN IF streamClosed[e]
        THEN /\ timer' = [timer EXCEPT ![e] = IF @ = "armed" THEN "cleared" ELSE @]
             /\ UNCHANGED <<stream, streamClosed, stdoutSink, stderrSink,
                            detachCount, firstTerminal>>
        ELSE IF cls.threw
        THEN Failed(e, stream[e])
        ELSE /\ timer' = [timer EXCEPT ![e] = IF @ = "armed" THEN "cleared" ELSE @]
             /\ stream' = [stream EXCEPT ![e] = cls.s]
             /\ streamClosed' = [streamClosed EXCEPT ![e] = TRUE]
             /\ stdoutSink' = 0
             /\ stderrSink' = 0
             /\ detachCount' = [detachCount EXCEPT ![e] = @ + 1]
             /\ firstTerminal' = [firstTerminal EXCEPT ![e] = FirstOf(e, "completed")]
  /\ UNCHANGED <<mgrVars, pc, aborted, listener, interruptBuffer, writes,
                 pyInterrupt, mounted, onAbortRuns, sinkInstalls, raised>>
  /\ UNCHANGED <<deps, tool, warmup>>

\* part_002:119 and 128-137 -- runPythonAsync rejects (the snippet raised)
SnippetThrows(e) ==
  /\ task[e] = "running"
  /\ task' = [task EXCEPT ![e] = "threw"]
  /\ Failed(e, stream[e])
  /\ UNCHANGED <<mgrVars, pc, aborted, listener, interruptBuffer, writes,
                 pyInterrupt, mounted, onAbortRuns, sinkInstalls, raised>>
  /\ UNCHANGED <<deps, tool, warmup>>

\* The caller of runPy reads the next chunk (mcp.controller.ts:185)
ConsumerRead(e) ==
  /\ ~Busy
  /\ pc[e] = "streaming"
  /\ stream[e].cons = "open"
  /\ ~stream[e].reading
  /\ stream' = [stream EXCEPT ![e] = StreamRead(@)]
  /\ UNCHANGED <<mgrVars, pc, aborted, listener, streamClosed, timer,
                 interruptBuffer, task, writes, rtVars, histVars>>
  /\ UNCHANGED <<deps, tool, warmup>>

\* The caller stops reading (mcp.controller.ts:188-191, the break)
ConsumerCancel(e) ==
  /\ ~Busy
  /\ pc[e] = "streaming"
  /\ stream[e].cons = "open"
  /\ stream' = [stream EXCEPT ![e] = StreamCancel(@)]
  /\ firstTerminal' = [firstTerminal EXCEPT ![e] =
        IF stream[e].st = "readable" /\ ~stream[e].closeReq
        THEN FirstOf(e, "consumerCancelled") ELSE @]
  /\ UNCHANGED <<mgrVars, pc, aborted, listener, streamClosed, timer,
                 interruptBuffer, task, writes, rtVars, detachCount, onAbortRuns,
                 sinkInstalls, raised>>
  /\ UNCHANGED <<deps, tool, warmup>>

RunStep(e) ==
  \/ RunPyCall(e)
  \/ AcquireFailed(e)
  \/ \E withMount \in BOOLEAN, mountOk \in BOOLEAN, requested \in RequestedMaps :
        AcquireDone(e, withMount, mountOk, requested)
  \/ DepsStep(e, RunImports)
  \/ CreateStream(e)
  \/ Abort(e)
  \/ TimeoutFires(e)
  \/ SnippetStart(e)
  \/ \E ch \in {"out", "err"} : SnippetWrite(e, ch)
  \/ SnippetAwait(e)
  \/ SnippetResume(e)
  \/ SnippetReturns(e)
  \/ SnippetThrows(e)

ConsumerStep(e) ==
  \/ ConsumerRead(e)
  \/ ConsumerCancel(e)

\* ------------------------------------------------------- specifications
\* tool/py.ts with one runPy call and NFree further getPyodide calls
Init == MgrInit /\ RunInit

\* a getPyodide call from outside runPy (part_002:8-11, py.ts:62, py.ts:72)
CallGetPyodide(c) == ~Busy /\ GetPyodide(c) /\ UNCHANGED runVars

LoadSettles(k, ok) == ~Busy /\ LoadPyodideSettles(k, ok) /\ UNCHANGED runVars

InitTimeout(k) == ~Busy /\ InitTimeoutFires(k) /\ UNCHANGED runVars

Next ==
  \/ \E c \in FreeCalls : CallGetPyodide(c)
  \/ \E k \in 1..MaxInits, ok \in BOOLEAN : LoadSettles(k, ok)
  \/ \E k \in 1..MaxInits : InitTimeout(k)
  \/ RunStep(1)
  \/ ConsumerStep(1)

Spec == Init /\ [][Next]_vars

\* Spec with the scheduling of the event loop: a timer whose delay has elapsed
\* runs its callback once the loop is free (part_002:92-107), and a queued
\* microtask runs (part_002:114). Nothing obliges a snippet to return.
SpecLive ==
  /\ Init /\ [][Next]_vars
  /\ SF_vars(TimeoutFires(1))
  /\ WF_vars(SnippetStart(1))

\* the multi-CDN variant of getPyodide with its concurrent callers
CallGetPyodideCdn(c) == GetPyodideCdn(c) /\ UNCHANGED runVars

LoadSettlesCdn(k, ok) == LoadPyodideSettlesCdn(k, ok) /\ UNCHANGED runVars

InitTimeoutCdn(k) == InitTimeoutFiresCdn(k) /\ UNCHANGED runVars

NextCdn ==
  \/ \E c \in CdnCalls : CallGetPyodideCdn(c)
  \/ \E k \in 1..(MaxCdnInits * 4), ok \in BOOLEAN : LoadSettlesCdn(k, ok)
  \/ \E k \in 1..(MaxCdnInits * 4) : InitTimeoutCdn(k)

SpecCdn == Init /\ [][NextCdn]_vars

\* NExec overlapping runPy calls on a runtime that is already initialised
ReadyMgr ==
  /\ customUrl \in BOOLEAN
  /\ pyodideInstance = 1
  /\ initializationAttempted = TRUE
  /\ loads = <<[url |-> PackageBaseUrl, idx |-> 1, load |-> "resolved",
                race |-> "fulfilled", epoch |-> 1]>>
  /\ call = [c \in Calls |-> IdleCall]
  /\ initCount = 1

ReadyInit == ReadyMgr /\ RunInit

NextRun == \E e \in Execs : RunStep(e)

SpecRun == ReadyInit /\ [][NextRun]_vars

\* Two runPy calls on the initialised runtime, each with its own AbortSignal;
\* the second call arrives while the first execution has its stream; their
\* snippets import at most sklearn and the callers ask for no mount. The
\* callers' reads are left out: what is queued on a stream is what its
\* consumer reads next.
OverlapImports == {"sklearn"}

OverlapStep(e) ==
  \/ /\ e = 1 \/ pc[1] = "streaming"
     /\ RunPyCall(e)
  \/ AcquireDone(e, FALSE, TRUE, {})
  \/ DepsStep(e, OverlapImports)
  \/ CreateStream(e)
  \/ Abort(e)
  \/ TimeoutFires(e)
  \/ SnippetStart(e)
  \/ \E ch \in {"out", "err"} : SnippetWrite(e, ch)
  \/ SnippetAwait(e)
  \/ SnippetResume(e)
  \/ SnippetReturns(e)
  \/ SnippetThrows(e)

NextOverlap == \E e \in Execs : OverlapStep(e)

OverlapInit == ReadyInit /\ ~customUrl

SpecOverlap == OverlapInit /\ [][NextOverlap]_vars

\* ------------------------------------------------ warm-up (service/warmup.ts)
\* warmup.ts:14-26 and 65 -- a warmupPython call of caller w: it returns the
\* existing promise, or starts the run, which goes as far as its
\* `await getPyodide()` (the getPyodide call uses frame w)
WarmupPython(w) ==
  /\ warmup.got[w] = 0
  /\ IF WarmupSkips(warmup)
     THEN /\ warmup' = [warmup EXCEPT !.got[w] = warmup.starts]
          /\ UNCHANGED mgrVars
     ELSE /\ GetPyodide(w)
          /\ warmup' = [warmup EXCEPT !.got[w] = warmup.starts + 1,
                                      !.starts = @ + 1,
                                      !.warmupPromise = "pending",
                                      !.pc = "init"]
  /\ UNCHANGED <<execVars, rtVars, histVars, deps, tool>>

\* the getPyodide call the run is waiting for
WarmupFrame == CHOOSE w \in WarmCalls : call[w].pc # "idle"

\* warmup.ts:26 and 58-61 -- getPyodide rejected: the outer catch
WarmupInitFailed ==
  /\ warmup.pc = "init"
  /\ call[WarmupFrame].pc = "threw"
  /\ warmup' = WarmupEnds(warmup, "failed")
  /\ UNCHANGED <<mgrVars, execVars, rtVars, histVars, deps, tool>>

\* warmup.ts:26-49 -- getPyodide returned: the timer of warmupTimeout is set
\* and loadDeps(commonPackagesCode) is called
WarmupInitDone ==
  /\ warmup.pc = "init"
  /\ call[WarmupFrame].pc = "returned"
  /\ warmup' = [warmup EXCEPT !.pc = "preload", !.timer = "armed"]
  /\ deps' = [deps EXCEPT ![DirectCaller] = LoadDepsCalled({}, {})]
  /\ UNCHANGED <<mgrVars, execVars, rtVars, histVars, tool>>

\* warmup.ts:48-51 -- loadDeps returned first: the race is won by warmupTask
WarmupTaskWins ==
  /\ warmup.pc = "preload"
  /\ deps[DirectCaller].pc = "returned"
  /\ warmup' = [warmup EXCEPT !.warmupCompleted = TRUE, !.pc = "ended",
                              !.outcome = "success",
                              !.warmupPromise = "resolved"]
  /\ UNCHANGED <<mgrVars, execVars, rtVars, histVars, deps, tool>>

\* warmup.ts:42-44 and 52-56 -- the timer fires: the race rejects and the
\* inner catch runs, while loadDeps goes on; after the race was won the
\* timer (never cleared) fires without effect
WarmupTimeoutFires ==
  /\ warmup.timer = "armed"
  /\ warmup' = IF warmup.pc = "preload"
               THEN [WarmupEnds(warmup, "timeout") EXCEPT !.timer = "fired"]
               ELSE [warmup EXCEPT !.timer = "fired"]
  /\ UNCHANGED <<mgrVars, execVars, rtVars, histVars, deps, tool>>

NextWarmup ==
  \/ \E w \in WarmCalls : WarmupPython(w)
  \/ \E k \in 1..MaxInits, ok \in BOOLEAN : LoadSettles(k, ok)
  \/ \E k \in 1..MaxInits : InitTimeout(k)
  \/ WarmupInitFailed
  \/ WarmupInitDone
  \/ DepsStep(DirectCaller, WarmupImports)
  \/ WarmupTaskWins
  \/ WarmupTimeoutFires

SpecWarmup == Init /\ [][NextWarmup]_vars

\* loadDeps called directly, with any override table, on a runtime that is
\* already initialised
LoadDepsDirect(importToPackageMap) ==
  /\ deps[DirectCaller].pc = "idle"
  /\ deps' = [deps EXCEPT ![DirectCaller] =
                LoadDepsCalled(importToPackageMap, importToPackageMap)]
  /\ UNCHANGED <<mgrVars, execVars, rtVars, histVars, tool, warmup>>

NextDeps ==
  \/ /\ deps[DirectCaller].pc = "idle"
     /\ \E importToPackageMap \in Overrides : LoadDepsDirect(importToPackageMap)
  \/ DepsStep(DirectCaller, ImportNames)

SpecDeps == ReadyInit /\ [][NextDeps]_vars

\* ------------------------------------------------ one tools/call request
\* mcp.controller.ts:131-161 and 215-231, set-up-mcp.ts:55-61 and 105 -- the
\* request arrives and is validated (the zod schema of the sdk tool admits
\* only a string, of any length); root and mountPoint are the environment
ToolsCall(via, name, code, codeLen, map, root, mountPoint) ==
  /\ tool.phase = "idle"
  /\ via = "sdk" => code = "string" /\ map = {}
  /\ via = "http" => root = "none" /\ mountPoint = "none"
  /\ name = "javascript-code-runner" => map = {}
  /\ LET rejected == via = "http" /\ CodeRejected(code, codeLen)
     IN tool' = [IdleTool EXCEPT
                   !.via = via, !.name = name, !.code = code, !.codeLen = codeLen,
                   !.map = map, !.root = root, !.mountPoint = mountPoint,
                   !.phase = IF rejected THEN "done"
                             ELSE IF name = "python-code-runner" THEN "calling"
                             ELSE "runJS",
                   !.response = IF rejected THEN "invalidParams" ELSE "none",
                   !.at = IF rejected THEN "idle" ELSE "none"]
  /\ UNCHANGED <<mgrVars, execVars, rtVars, histVars, deps, warmup>>

\* mcp.controller.ts:166, set-up-mcp.ts:63 -- the handler calls runPy
ToolRunPy ==
  /\ tool.phase = "calling"
  /\ RunPyCall(1)

\* runPy goes on with the options the handler gave it: the sdk tool gives the
\* mount options, the http tool gives { importToPackageMap }
ToolAcquireDone(mountOk) ==
  /\ tool.via # "none"
  /\ IF tool.via = "sdk"
     THEN AcquireDone(1, MountRequested(SdkOptions(tool.root, tool.mountPoint)),
                      mountOk, {})
     ELSE AcquireDone(1, FALSE, mountOk, HttpOptions(tool.map).importToPackageMap)

\* set-up-mcp.ts:63 -- only the sdk tool hands a signal (extra.signal) to runPy
ToolAbort ==
  /\ tool.via = "sdk"
  /\ Abort(1)

\* mcp.controller.ts:164-180 -- the PYTHON_EXECUTION timer wins the race
\* against the promise of runPy: the request is answered with an error and
\* runPy goes on unobserved. getPyodide settles within PYTHON_INIT, which is
\* shorter (config.ts:16-17); loadDeps has no time limit (py.ts:68-191).
ToolExecTimeout ==
  /\ ~Busy
  /\ tool.via = "http"
  /\ tool.phase = "calling"
  /\ pc[1] = "preflight"
  /\ tool' = [tool EXCEPT !.phase = "done", !.response = "error", !.at = pc[1]]
  /\ UNCHANGED <<mgrVars, execVars, rtVars, histVars, deps, warmup>>

\* mcp.controller.ts:186, set-up-mcp.ts:66 -- the for-await loop asks for the
\* next chunk
ToolRead ==
  /\ tool.phase = "calling"
  /\ tool.consumed = Len(stream[1].delivered)
  /\ ConsumerRead(1)

\* mcp.controller.ts:187-192, set-up-mcp.ts:67 -- the loop body for a chunk of
\* len characters: append, then (http only) compare with the limit, append the
\* marker and break. The sdk tool has no limit; its length is not tracked.
AfterChunk(T, len) ==
  IF T.via = "http" /\ T.outLen + len > MAX_OUTPUT_LENGTH
  THEN [T EXCEPT !.consumed = @ + 1, !.outLen = @ + len, !.markers = @ + 1,
                 !.phase = "break"]
  ELSE [T EXCEPT !.consumed = @ + 1,
                 !.outLen = IF T.via = "http" THEN @ + len ELSE @]

ToolBody(len) ==
  /\ ~Busy
  /\ tool.phase = "calling"
  /\ pc[1] = "streaming"
  /\ tool.consumed < Len(stream[1].delivered)
  /\ tool' = AfterChunk(tool, len)
  /\ UNCHANGED <<mgrVars, execVars, rtVars, histVars, deps, warmup>>

\* mcp.controller.ts:191 -- the break leaves the for-await loop, which cancels
\* the stream
ToolBreak ==
  /\ tool.phase = "break"
  /\ ConsumerCancel(1)

\* mcp.controller.ts:174-180 and 194-212, set-up-mcp.ts:63-71 -- the answer:
\* an error when runPy rejected or the loop threw, the text otherwise
Answer(rejected, cons) ==
  IF rejected \/ cons = "error" THEN "error" ELSE "text"

ToolRespond ==
  /\ ~Busy
  /\ \/ tool.phase = "calling" /\ pc[1] = "rejected"
     \/ /\ tool.phase = "calling" /\ pc[1] = "streaming"
        /\ tool.consumed = Len(stream[1].delivered)
        /\ stream[1].cons \in {"done", "error"}
     \/ tool.phase = "break" /\ stream[1].cons = "cancelled"
  /\ tool' = [tool EXCEPT !.phase = "done", !.at = pc[1],
                          !.response = Answer(pc[1] = "rejected", stream[1].cons)]
  /\ UNCHANGED <<mgrVars, execVars, rtVars, histVars, deps, warmup>>

NextTool ==
  \/ /\ tool.phase = "idle"
     /\ \E via \in {"sdk", "http"}, name \in ToolNames, code \in CodeKinds,
           codeLen \in CodeLens, map \in RequestedMaps, root \in RootDirs,
           mountPoint \in MountPoints :
          ToolsCall(via, name, code, codeLen, map, root, mountPoint)
  \/ ToolRunPy
  \/ \E k \in 1..MaxInits, ok \in BOOLEAN : LoadSettles(k, ok)
  \/ \E k \in 1..MaxInits : InitTimeout(k)
  \/ AcquireFailed(1)
  \/ \E mountOk \in BOOLEAN : ToolAcquireDone(mountOk)
  \/ DepsStep(1, RunImports)
  \/ CreateStream(1)
  \/ ToolAbort
  \/ ToolExecTimeout
  \/ TimeoutFires(1)
  \/ SnippetStart(1)
  \/ \E ch \in {"out", "err"} : SnippetWrite(1, ch)
  \/ SnippetAwait(1)
  \/ SnippetResume(1)
  \/ SnippetReturns(1)
  \/ SnippetThrows(1)
  \/ ToolRead
  \/ \E len \in ChunkLens : ToolBody(len)
  \/ ToolBreak
  \/ ToolRespond

\* the first request of the process, or a request on a runtime that an
\* earlier sdk request has initialised and mounted the host directory on
\* (part_002:155-166: mounts are never removed)
ToolInit ==
  \/ Init
  \/ ReadyMgr /\ RunInitWith(TRUE)

SpecTool == ToolInit /\ [][NextTool]_vars

\* =================================================================== claims
IsPrefix(a, b) == Len(a) <= Len(b) /\ \A i \in 1..Len(a) : a[i] = b[i]

IsSettled(c) == call[c].pc \in {"returned", "threw"}

IsWaiting(c) == call[c].pc \in {"awaitInit", "awaitShared"}

LoadIds == 1..Len(loads)

\* every chunk the stream has accepted and not dropped, in order
All(S) == S.delivered \o S.queue

TerminalKinds == {"completed", "timedOut", "cancelled", "failed"}

\* C1: the getPyodide calls that arrive before one initialization has
\* completed trigger a single bootstrap (no source is loaded twice for it) and
\* all observe the same outcome: the same instance for every one of them, or a
\* failure for every one of them.
C1_ConcurrentCallersShareOneOutcome ==
  /\ \A k1, k2 \in LoadIds :
        (loads[k1].epoch = loads[k2].epoch /\ loads[k1].idx = loads[k2].idx) => k1 = k2
  /\ \A c1, c2 \in Calls :
        ( /\ call[c1].early /\ call[c2].early
          /\ call[c1].epoch = call[c2].epoch
          /\ IsSettled(c1) /\ IsSettled(c2) )
        => (call[c1].pc = call[c2].pc /\ call[c1].result = call[c2].result)

\* C2: in every reachable state at most one loadPyodide call that has not yet
\* settled is in flight.
C2_AtMostOneBootstrapInFlight == Cardinality(InFlight) <= 1

\* C3: when the race promise of an initialization rejects (load failure or the
\* 60 s timeout) every call waiting on it fails and pyodideInstance and
\* initializationAttempted are back at null / false; a call that finds the
\* manager uninitialized starts a fresh bootstrap; a bootstrap starts only in
\* a step in which a getPyodide call enters.
C3_FailureResetsAndNextCallRetries ==
  [][ /\ \A k \in LoadIds :
           (loads[k].race = "pending" /\ loads'[k].race = "rejected")
           => /\ pyodideInstance' = 0
              /\ initializationAttempted' = FALSE
              /\ \A c \in Calls :
                    (IsWaiting(c) /\ call[c].on = k) => call'[c].pc = "threw"
      /\ \A c \in Calls :
           ( /\ call[c].pc = "idle" /\ call'[c].pc # "idle"
             /\ pyodideInstance = 0 /\ ~initializationAttempted )
           => /\ Len(loads') = Len(loads) + 1
              /\ loads'[Len(loads')].load = "pending"
              /\ call'[c].pc = "awaitInit"
              /\ call'[c].on = Len(loads')
      /\ (Len(loads') # Len(loads))
           => \E c \in Calls : call[c].pc = "idle" /\ call'[c].pc = "awaitInit"
    ]_vars

\* C3 witness: a call has failed with its initialization and a later call is
\* waiting on the bootstrap of a second initialization.
C3_RetryAfterFailure ==
  \E c1, c2 \in Calls :
     /\ call[c1].pc = "threw" /\ call[c1].epoch = 1
     /\ call[c2].pc = "awaitInit" /\ call[c2].epoch = 2
     /\ pyodideInstance = 2

\* C4: once an initialization has succeeded, pyodideInstance stays that
\* instance for ever, no further loadPyodide call is made, and every getPyodide
\* call that enters afterwards returns that instance -- whatever later
\* executions do (runtime error, timeout, cancellation).
C4_CachedInstanceIsPermanent ==
  [][ \A k \in LoadIds :
         loads[k].race = "fulfilled"
         => /\ pyodideInstance' = k
            /\ Len(loads') = Len(loads)
            /\ \A c \in Calls :
                  (call[c].pc = "idle" /\ call'[c].pc # "idle")
                  => (call'[c].pc = "returned" /\ call'[c].result = k)
    ]_vars

\* C4 witness: an execution has ended in a runtime error and a getPyodide
\* call that entered after the success returned the cached instance.
C4_ReturnedAfterFailedExecution ==
  /\ firstTerminal[1] = "failed"
  /\ \E c \in FreeCalls :
        call[c].pc = "returned" /\ ~call[c].early /\ call[c].result = pyodideInstance

\* C5: the sources are tried in priority order, each after the one before it
\* failed, and a getPyodide call fails only after every source of the list
\* has failed for its initialization.
C5_FailureOnlyAfterEverySourceFailed ==
  /\ \A k \in LoadIds :
        /\ loads[k].url = CdnUrls[loads[k].idx]
        /\ loads[k].idx > 1
           => /\ k > 1
              /\ loads[k - 1].idx = loads[k].idx - 1
              /\ loads[k - 1].epoch = loads[k].epoch
              /\ loads[k - 1].race = "rejected"
  /\ \A c \in Calls :
        call[c].pc = "threw"
        => \A i \in 1..Len(CdnUrls) :
              \E k \in LoadIds :
                 /\ loads[k].epoch = call[c].epoch
                 /\ loads[k].idx = i
                 /\ loads[k].race = "rejected"

\* C6: the first terminal event of a runPy stream decides its terminal state
\* for good: a stream that completed or timed out is never errored, a
\* cancelled stream stays errored with the abort reason, a failed one with the
\* runtime error, and after a terminal event the stream accepts no output.
C6_FirstTerminalEventDecides ==
  \A e \in Execs :
     /\ firstTerminal[e] \in {"completed", "timedOut"}
        => (stream[e].closeReq /\ stream[e].st # "errored")
     /\ firstTerminal[e] = "cancelled"
        => (stream[e].st = "errored" /\ stream[e].err = "abort")
     /\ firstTerminal[e] = "failed"
        => (stream[e].st = "errored" /\ stream[e].err = "runtime")
     /\ firstTerminal[e] # "none" => ~CanCloseOrEnqueue(stream[e])

\* C7: after the terminal event of a stream no chunk is added to it (what the
\* consumer has received plus what is queued never grows, and the consumer
\* receives only what was queued), and no output write raises into the runtime.
C7_NothingAfterTerminalEvent ==
  [][ /\ \A e \in Execs :
           firstTerminal[e] # "none"
           => /\ IsPrefix(All(stream'[e]), All(stream[e]))
              /\ IsPrefix(stream[e].delivered, stream'[e].delivered)
      /\ ~raised'
    ]_vars

\* C7 witness: the stream timed out, the snippet then performed all its
\* writes, and the stream holds the timeout notice alone.
C7_LateWritesDropped ==
  /\ firstTerminal[1] = "timedOut"
  /\ writes[1] = MaxWrites
  /\ stream[1].cons # "cancelled"
  /\ stream[1].st # "errored"
  /\ All(stream[1]) = <<Notice>>

\* C8: on every terminal path the sinks are detached and the timer is
\* cleared, and the cleanup has run exactly once: once the stream has had its
\* terminal event and nothing of the execution is left to run, the sinks are
\* not this execution's, its timer is cleared (or has fired) and its code has
\* detached the sinks exactly once.
C8_CleanupExactlyOnceOnEveryPath ==
  \A e \in Execs :
     (firstTerminal[e] \in TerminalKinds /\ task[e] \in {"skipped", "returned", "threw"})
     => /\ stdoutSink # e /\ stderrSink # e
        /\ timer[e] \in {"cleared", "fired"}
        /\ detachCount[e] = 1

\* C9: when the signal is already aborted at stream creation the stream is
\* errored and the producer body has not run: no sink was installed, no timer
\* was started, the snippet was not executed.
C9_PreAbortedRunsNothing ==
  \A e \in Execs :
     (pc[e] = "streaming" /\ task[e] = "skipped")
     => /\ stream[e].st = "errored"
        /\ sinkInstalls[e] = 0
        /\ timer[e] = "none"
        /\ writes[e] = 0

\* C10: when the abort signal fires while the execution is pending or running
\* (its stream has had no terminal event), that same step errors the stream
\* and writes 2 to the interrupt buffer; onAbort has then run exactly once,
\* and from then on the stream holds and delivers no further chunk.
C10_AbortErrorsAndInterruptsAtOnce ==
  [][ \A e \in Execs :
         /\ ( /\ ~aborted[e] /\ aborted'[e]
              /\ pc[e] = "streaming" /\ firstTerminal[e] = "none" )
            => /\ stream'[e].st = "errored"
               /\ stream'[e].err = "abort"
               /\ stream'[e].queue = <<>>
               /\ interruptBuffer'[e] = 2
               /\ onAbortRuns[e] = 0 /\ onAbortRuns'[e] = 1
               /\ firstTerminal'[e] = "cancelled"
         /\ firstTerminal[e] = "cancelled"
            => /\ stream'[e].st = "errored"
               /\ stream'[e].queue = <<>>
               /\ stream'[e].delivered = stream[e].delivered
               /\ onAbortRuns'[e] = 1
    ]_vars

\* C10 witness: the signal fired while the snippet was suspended; the snippet
\* went on running and writing after the cancellation.
C10_CancelledWhileRunning ==
  /\ firstTerminal[1] = "cancelled"
  /\ task[1] = "running"
  /\ writes[1] = MaxWrites
  /\ interruptBuffer[1] = 2
  /\ onAbortRuns[1] = 1

InterruptWrites(e) == onAbortRuns[e] + (IF timer[e] = "fired" THEN 1 ELSE 0)

\* C12: for an execution whose timeout callback has run, the interrupt flag
\* has been written exactly once, whatever else happened to the execution.
C12_InterruptSetExactlyOnce ==
  \A e \in Execs : timer[e] = "fired" => InterruptWrites(e) = 1

\* C13: every stream runPy has created eventually has a terminal event.
C13_EveryStreamTerminates ==
  \A e \in Execs : (pc[e] = "streaming") ~> (firstTerminal[e] # "none")

\* C14: in every runPy call the runtime is acquired before loadDeps is called,
\* the mount is attempted in the step that calls loadDeps, loadDeps makes
\* progress only while runPy awaits it, and the sinks, the timer and the
\* snippet are started only in the step that follows the return of loadDeps.
C14_PreflightBeforeExecution ==
  [][ \A e \in Execs :
         /\ ( pc[e] # "preflight" /\ pc'[e] = "preflight" )
            => /\ pc[e] = "acquire" /\ call[e].pc = "returned"
               /\ deps[e].pc = "idle" /\ deps'[e].pc = "analysis"
         /\ deps'[e] # deps[e] => ( pc[e] = "preflight" \/ pc'[e] = "preflight" )
         /\ ( \/ sinkInstalls'[e] # sinkInstalls[e]
              \/ (timer[e] = "none" /\ timer'[e] # "none")
              \/ (task[e] = "none" /\ task'[e] # "none") )
            => pc[e] = "preflight" /\ deps[e].pc = "returned"
         /\ task'[e] \in {"called", "running", "suspended"} => deps'[e].pc = "idle"
         /\ mounted' # mounted => \E x \in Execs : pc[x] = "acquire" /\ pc'[x] = "preflight"
    ]_vars

\* C14 witness: the snippet of a call that mounted the file system and whose
\* preflight has returned is running.
C14_SnippetRunsAfterPreflight ==
  /\ task[1] = "running"
  /\ mounted
  /\ sinkInstalls[1] = 1
  /\ deps[1].pc = "idle"

\* the elements of a sequence
Elems(xs) == {xs[i] : i \in DOMAIN xs}

\* loadDeps of caller d has got past getPip and built its package list
PastMapping(d) == deps[d].pc \in {"batch", "single", "returned"} /\ ~deps[d].failed

\* C15: on an initialised runtime loadDeps never throws: an error in the
\* analysis or in getPip makes it return with no install requested, runPy rejects
\* only when the runtime could not be acquired, and when loadDeps has returned
\* runPy creates the stream and, unless the signal is aborted, starts the snippet.
C15_LoadDepsNeverFailsItsCaller ==
  [][ /\ \A d \in DepCallers :
            /\ deps'[d].pc # "threw"
            /\ (deps'[d].failed /\ deps'[d].pc = "returned") => deps'[d].log = <<>>
      /\ \A e \in Execs :
            /\ ( pc[e] = "preflight" /\ pc'[e] # "preflight" )
               => /\ deps[e].pc = "returned"
                  /\ pc'[e] = "streaming"
                  /\ (aborted[e] \/ task'[e] = "called")
            /\ ( pc[e] # "rejected" /\ pc'[e] = "rejected" )
               => pc[e] = "acquire" /\ call[e].pc = "threw"
    ]_vars

\* C15 witness: the preflight of a call failed (analysis or getPip), loadDeps
\* returned, and the snippet of that call is running.
C15_SnippetRunsAfterFailedPreflight ==
  /\ deps[1].failed
  /\ deps[1].pc = "idle"
  /\ task[1] = "running"
  /\ writes[1] > 0

\* C16: when every root module the snippet imports is already loaded, built
\* in, or importable by the probe, loadDeps finds no missing import and
\* requests no installation.
C16_NothingMissingInstallsNothing ==
  \A d \in DepCallers :
    ( /\ deps[d].pc \in {"getPip", "batch", "single", "returned"}
      /\ deps[d].found \subseteq (deps[d].available \cup deps[d].importable) )
    => deps[d].imports = <<>> /\ deps[d].packages = <<>> /\ deps[d].log = <<>>

\* C16 witness: loadDeps returned without error for a snippet whose imports
\* were partly loaded and partly importable only by the probe.
C16_ReturnedWithAllAvailable ==
  LET D == deps[DirectCaller]
  IN /\ D.pc = "returned" /\ ~D.failed
     /\ Cardinality(D.found) = MaxImports
     /\ D.found \subseteq (D.available \cup D.importable)
     /\ D.importable \ D.available # {}
     /\ D.available \ D.importable # {}
     /\ D.log = <<>>

\* C17: for every missing import that is a key of the built-in alias table and
\* has no override, loadDeps requests the mapped package in its batched
\* install, and no install request names the raw import.
C17_AliasMapsToPackageName ==
  \A d \in DepCallers :
    \A n \in Elems(deps[d].imports) :
      ( PastMapping(d) /\ Has(defaultMappings, n) /\ ~Has(deps[d].override, n) )
      => /\ deps[d].log # <<>>
         /\ Get(defaultMappings, n) \in Elems(deps[d].log[1])
         /\ \A k \in DOMAIN deps[d].log : n \notin Elems(deps[d].log[k])

\* C17 witness: sklearn was missing and not overridden; the batch with
\* scikit-learn failed and the individual installs were attempted.
C17_AliasInstalledByMappedName ==
  LET D == deps[DirectCaller]
  IN /\ D.pc = "returned"
     /\ "sklearn" \in Elems(D.imports) /\ "PIL" \in Elems(D.imports)
     /\ ~Has(D.override, "sklearn")
     /\ D.batch = "failed"
     /\ <<"scikit-learn">> \in Elems(D.log)
     /\ <<"Pillow">> \in Elems(D.log)

\* C18: for every missing import present in both the override table and the
\* built-in alias table, the package loadDeps resolves is the override's value,
\* and neither the built-in value nor the raw import name is requested.
C18_OverrideAlwaysWins ==
  \A d \in DepCallers :
    \A n \in Elems(deps[d].imports) :
      ( PastMapping(d) /\ Has(deps[d].override, n) /\ Has(defaultMappings, n) )
      => /\ Resolve(CombinedMap(deps[d].override), n) = Get(deps[d].override, n)
         /\ \A k \in DOMAIN deps[d].log :
               /\ n \notin Elems(deps[d].log[k])
               /\ Get(defaultMappings, n) \notin Elems(deps[d].log[k])

\* C19: the override table loadDeps works with is the importToPackageMap of
\* the request whose runPy call made it.
C19_RequestOverridesReachPreflight ==
  \A e \in Execs : deps[e].pc # "idle" => deps[e].override = deps[e].requested

\* C20: a non-empty package list gets exactly one batched install of the
\* whole list; individual installs follow only a failed batch, one per
\* package in list order, and all of them are attempted whatever their
\* outcomes.
C20_OneBatchThenEachPackageOnce ==
  \A d \in DepCallers :
    LET D == deps[d]
    IN /\ (D.packages # <<>>) = (D.log # <<>>)
       /\ D.log # <<>> => D.log[1] = D.packages
       /\ Len(D.log) > 1 => D.batch = "failed"
       /\ \A k \in 2..Len(D.log) : D.log[k] = <<D.packages[k - 1]>>
       /\ Len(D.log) <= 1 + Len(D.packages)
       /\ (D.pc = "returned" /\ D.batch = "ok") => Len(D.log) = 1
       /\ (D.pc = "returned" /\ D.batch = "failed")
          => Len(D.log) = 1 + Len(D.packages) /\ Len(D.results) = Len(D.log)

\* C20 witness: the batch failed, the first individual install failed too,
\* and the install of the second package was still attempted and succeeded.
C20_ContinuedPastFailedInstall ==
  LET D == deps[DirectCaller]
  IN /\ D.pc = "returned"
     /\ Len(D.packages) = 2
     /\ D.results = <<FALSE, FALSE, TRUE>>
     /\ D.log = <<D.packages, <<D.packages[1]>>, <<D.packages[2]>> >>

\* C21: when getPyodide fails for a runPy call, the call ends rejected and
\* stays so: it has no stream, installed no sink, started no timer, made no
\* preflight and ran no snippet; and a call is rejected only for that reason.
C21_AcquireFailureRejectsWithoutStream ==
  \A e \in Execs :
    /\ pc[e] = "rejected" => call[e].pc = "threw"
    /\ call[e].pc = "threw" =>
          /\ pc[e] \in {"acquire", "rejected"}
          /\ stream[e] = NoStream
          /\ sinkInstalls[e] = 0
          /\ stdoutSink # e /\ stderrSink # e
          /\ timer[e] = "none"
          /\ deps[e] = IdleDeps
          /\ task[e] = "none" /\ writes[e] = 0

\* C21 witness: the bootstrap failed and the runPy call waiting for it was
\* rejected.
C21_RejectedCall ==
  /\ pc[1] = "rejected"
  /\ call[1].pc = "threw"
  /\ \E k \in LoadIds : loads[k].race = "rejected"

\* C22: whether FS.mount succeeds, throws, or is repeated on a path an earlier
\* request has mounted, runPy goes on from the acquired runtime to the
\* preflight (it is rejected only when getPyodide failed), and no step ever
\* removes a mount.
C22_MountFailureNeverFatal ==
  [][ /\ mounted => mounted'
      /\ pc'[1] = "rejected" => call'[1].pc = "threw"
      /\ (pc[1] = "acquire" /\ call[1].pc = "returned" /\ pc'[1] # "acquire")
           => pc'[1] = "preflight" /\ deps'[1].pc = "analysis" ]_vars

\* C22 witness: the sdk tool asked for a mount, FS.mount failed (nothing is
\* mounted), and the snippet still ran to its end on a stream that closed.
C22_RanWithoutTheMount ==
  /\ tool.via = "sdk"
  /\ MountRequested(SdkOptions(tool.root, tool.mountPoint))
  /\ ~mounted
  /\ task[1] = "returned"
  /\ firstTerminal[1] = "completed"

\* C23: once runPy of an sdk python-code-runner call is past the file system
\* set-up, with NODEFS_ROOT configured, a mount has been asked for, at
\* NODEFS_MOUNT_POINT when that is set and at the NODEFS_ROOT path otherwise,
\* and the host path given to FS.mount is NODEFS_ROOT.
C23_ConfiguredRootIsBound ==
  ( tool.via = "sdk" /\ tool.root # "none" /\ pc[1] \in {"preflight", "streaming"} )
  => LET options == SdkOptions(tool.root, tool.mountPoint)
     IN /\ MountRequested(options)
        /\ MountArgs(options).point =
              (IF tool.mountPoint # "none" THEN tool.mountPoint ELSE tool.root)
        /\ MountArgs(options).root = tool.root

\* C24: the chunks of the stream of an execution, apart from the timeout
\* notice, are the writes of its own snippet, one chunk per write, in the
\* order of the writes over both channels, a stderr chunk with the prefix
\* "[stderr] " and a stdout chunk with none; while the stream is live every
\* write made so far is in it, and the consumer receives the chunks in that
\* order.
C24_ChunksAreTheWritesInOrder ==
  LET S == stream[1]
      IsWrite(c) == c # Notice
      got == SelectSeq(All(S), IsWrite)
      read == SelectSeq(S.delivered, IsWrite)
  IN /\ \A i \in DOMAIN got :
          /\ got[i].src = 1
          /\ got[i].n = i
          /\ got[i].ch \in {"out", "err"}
          /\ got[i].prefix = (IF got[i].ch = "err" THEN "[stderr] " ELSE "")
     /\ IsPrefix(read, got)
     /\ (pc[1] = "streaming" /\ firstTerminal[1] = "none") => Len(got) = writes[1]

\* C24 witness: the snippet wrote to stderr and then to stdout, and the
\* consumer has read both chunks, in that order, from a stream that then
\* closed.
C24_BothChannelsReadInOrder ==
  /\ Len(stream[1].delivered) = 2
  /\ stream[1].delivered[1].ch = "err" /\ stream[1].delivered[1].n = 1
  /\ stream[1].delivered[2].ch = "out" /\ stream[1].delivered[2].n = 2
  /\ stream[1].cons = "done"

\* C25: when the snippet's error is what terminates the stream, the stream is
\* errored with that error and every chunk written before the error has been
\* read by the consumer or is still there to be read.
C25_PartialOutputSurvivesError ==
  firstTerminal[1] = "failed"
  => /\ stream[1].st = "errored"
     /\ stream[1].err = "runtime"
     /\ Len(All(stream[1])) = writes[1]

\* C26: at the step in which runPy returns the stream the snippet has not
\* begun (its execution is only scheduled, or skipped for an aborted signal)
\* and nothing has been written; and whenever the execution is scheduled,
\* running or suspended, the caller already holds the stream.
C26_StreamReturnedBeforeSnippetRuns ==
  [][ /\ (pc[1] # "streaming" /\ pc'[1] = "streaming")
          => /\ task'[1] \in {"called", "skipped"}
             /\ writes'[1] = 0
             /\ stream'[1].st # "none"
      /\ task'[1] \in {"called", "running", "suspended"}
          => pc'[1] = "streaming" /\ stream'[1].st # "none" ]_vars

\* C26 witness: the consumer has read a chunk while the snippet, suspended
\* in an await, has neither returned nor raised.
C26_ReadWhileSnippetPending ==
  /\ task[1] = "suspended"
  /\ firstTerminal[1] = "none"
  /\ Len(stream[1].delivered) = 1
  /\ stream[1].delivered[1].src = 1

\* C27: the output the http handler has gathered for its answer, the marker
\* apart, is never longer than MAX_OUTPUT_LENGTH; the marker is appended at
\* most once, and only to an output of exactly the maximum length.
C27_OutputCutToMaximum ==
  tool.via = "http"
  => /\ tool.outLen <= MAX_OUTPUT_LENGTH
     /\ tool.markers <= 1
     /\ tool.markers = 1 => tool.outLen = MAX_OUTPUT_LENGTH

\* C28: a tools/call whose code argument is missing, is not a string or is
\* longer than MAX_CODE_LENGTH is answered with invalid params, and runPy is
\* never called for it (no getPyodide call, no preflight, no execution).
C28_OversizedOrInvalidCodeNeverRuns ==
  ( tool.via # "none" /\ (tool.code # "string" \/ tool.codeLen > MAX_CODE_LENGTH) )
  => /\ tool.response = "invalidParams"
     /\ tool.phase = "done"
     /\ pc[1] = "idle" /\ call[1].pc = "idle"

\* C29: a python-code-runner call that passed validation is answered with a
\* text result only when runPy returned a stream and that stream ended
\* without an error, and with an error response only when runPy was rejected
\* for want of the runtime or the stream ended in error.
C29_TextOrErrorByOutcome ==
  ( tool.name = "python-code-runner" /\ tool.response \notin {"none", "invalidParams"} )
  => /\ tool.response \in {"text", "error"}
     /\ tool.response = "text"
          => tool.at = "streaming" /\ stream[1].cons \in {"done", "cancelled"}
     /\ tool.response = "error"
          => \/ tool.at = "rejected" /\ call[1].pc = "threw"
             \/ tool.at = "streaming" /\ stream[1].cons = "error"

\* C30: the package list loadDeps hands to the installer has no duplicate
\* and no empty or whitespace-only entry; a missing import with no entry in
\* the merged map is in the list under its own name; and a missing import
\* whose entry in the merged map is the empty string is not in the list.
C30_PackageListCleanAndEmptyDropped ==
  \A d \in DepCallers :
    PastMapping(d) =>
      LET D == deps[d]
          merged == CombinedMap(D.override)
      IN /\ \A i, j \in DOMAIN D.packages : i # j => D.packages[i] # D.packages[j]
         /\ \A i \in DOMAIN D.packages :
               D.packages[i] # "" /\ D.packages[i] # " "
         /\ \A n \in Elems(D.imports) :
               /\ ~Has(merged, n) => n \in Elems(D.packages)
               /\ (Has(merged, n) /\ Get(merged, n) = "") => n \notin Elems(D.packages)

\* C31: every chunk on the stream of an execution, the timeout notice apart,
\* was written by the snippet of that execution.
C31_OutputStaysOnItsOwnStream ==
  \A e \in Execs :
    \A i \in DOMAIN All(stream[e]) :
      All(stream[e])[i] # Notice => All(stream[e])[i].src = e

\* C32: a step in which one execution detaches the sinks (its completion,
\* error, timeout or abort) leaves the sinks of a different execution, whose
\* snippet has not ended and whose stream is open, installed.
C32_CleanupLeavesOtherSinks ==
  [][ \A e, f \in Execs :
        ( /\ e # f
          /\ detachCount'[e] > detachCount[e]
          /\ stdoutSink = f /\ stderrSink = f
          /\ task[f] \in {"called", "running", "suspended"}
          /\ ~streamClosed[f] )
        => stdoutSink' = f /\ stderrSink' = f ]_vars

\* C33: a step in which the timeout (3) or the abort (2) of an execution
\* writes its interrupt flag while that execution's snippet has not ended
\* writes it to the buffer the runtime polls, that is, the buffer registered
\* last is the buffer of that execution.
C33_InterruptWrittenToPolledBuffer ==
  [][ \A e \in Execs :
        ( /\ interruptBuffer'[e] # interruptBuffer[e]
          /\ interruptBuffer'[e] \in {2, 3}
          /\ task[e] \in {"called", "running", "suspended"} )
        => pyInterrupt = e ]_vars

\* C34: in every state, hence at the entry of every getPyodide call,
\* pyodideInstance is not null while initializationAttempted is true; no call
\* has taken the branch that throws "already attempted and failed": a call
\* that threw had awaited an initialization that failed.
C34_AttemptedFailedBranchNeverTaken ==
  /\ ~(pyodideInstance = 0 /\ initializationAttempted)
  /\ \A c \in Calls :
        call[c].pc = "threw"
        => /\ call[c].on \in LoadIds
           /\ loads[call[c].on].race = "rejected"

\* C34 witness: two initializations have failed, one of them by its timer
\* with its loadPyodide still pending, their callers threw, and the state a
\* next call would enter with is the reset one.
C34_ResetAfterTwoFailures ==
  /\ Len(loads) = 2
  /\ \A k \in LoadIds : loads[k].race = "rejected"
  /\ \E k \in LoadIds : loads[k].load = "pending"
  /\ \E c \in Calls : call[c].pc = "threw"
  /\ pyodideInstance = 0 /\ ~initializationAttempted

\* C35: the promise of the warm-up run never rejects, whichever way the run
\* ends (failed initialization, preload won or lost against the timer); a run
\* that has ended has a resolved promise; and warmupCompleted becomes true
\* only in a step in which loadDeps has returned and the timer has not fired.
C35_WarmupNeverRejects ==
  [][ /\ warmup'.warmupPromise # "rejected"
      /\ warmup'.pc = "ended" => warmup'.warmupPromise = "resolved"
      /\ (warmup'.warmupCompleted /\ ~warmup.warmupCompleted)
            => /\ deps[DirectCaller].pc = "returned"
               /\ warmup.timer = "armed"
               /\ warmup.pc = "preload" ]_vars

\* C35 witness: the timer fired while loadDeps was still installing: the run
\* ended with its promise resolved and warmupCompleted false.
C35_ResolvedAfterTimeout ==
  /\ warmup.pc = "ended"
  /\ warmup.outcome = "timeout"
  /\ warmup.warmupPromise = "resolved"
  /\ ~warmup.warmupCompleted
  /\ deps[DirectCaller].pc = "batch"

\* C36: the warm-up body is started at most once, and every warmupPython
\* call made so far returned the promise of that one run.
C36_WarmupStartedAtMostOnce ==
  /\ warmup.starts <= 1
  /\ \A w \in WarmCalls : warmup.got[w] # 0 => warmup.got[w] = 1

\* C36 witness: every caller has called warmupPython while the one run was
\* still waiting for the runtime.
C36_AllCallersShareTheRun ==
  /\ warmup.pc = "init"
  /\ warmup.starts = 1
  /\ \A w \in WarmCalls : warmup.got[w] = 1

\* C37: getWarmupStatus never reports completed and inProgress together, and
\* reports inProgress only while the run is still executing.
C37_InProgressOnlyWhileRunning ==
  /\ ~(GetWarmupStatus.completed /\ GetWarmupStatus.inProgress)
  /\ GetWarmupStatus.inProgress => warmup.pc \in {"init", "preload"}

\* C38: when the consumer's cancel is the first terminal event of the stream,
\* no output write raises into the runtime, and once the snippet has ended
\* the sinks are detached, the execution's own flag says closed and the timer
\* is cleared or has fired.
C38_CancelledStreamStillCleansUp ==
  firstTerminal[1] = "consumerCancelled"
  => /\ ~raised
     /\ stream[1].st = "closed"
     /\ task[1] \in {"returned", "threw"}
          => /\ stdoutSink # 1 /\ stderrSink # 1
             /\ streamClosed[1]
             /\ detachCount[1] >= 1
             /\ timer[1] \in {"cleared", "fired"}

\* C38 witness: the consumer cancelled first, the timeout callback ran on the
\* cancelled stream, and the snippet then ended in an error: the sinks were
\* detached once.
C38_TimedOutAfterCancel ==
  /\ firstTerminal[1] = "consumerCancelled"
  /\ timer[1] = "fired"
  /\ interruptBuffer[1] = 3
  /\ task[1] = "threw"
  /\ writes[1] = MaxWrites
  /\ stdoutSink = 0 /\ detachCount[1] = 1

====
